---- MODULE Spec2Model ----
(***************************************************************************)
(* ChainSynapse (src/chain_synapse.py): the anomaly evaluator              *)
(* analyze_anomaly, the three collectors and the run orchestrator          *)
(* run_analysis with its history store.                                    *)
(*                                                                         *)
(* Numbers.  statistics.mean and statistics.stdev are computed by Python   *)
(* from exact fractions; the model keeps the mean as a fraction <<p, q>>   *)
(* (q > 0) and the standard deviation by its square, the sample variance,  *)
(* again a fraction.  The comparison current > mean + K * stdev is decided *)
(* on these fractions by squaring.  For the counts of the model (all far   *)
(* below 2^53) the float comparison of the source gives the same answer.   *)
(***************************************************************************)
EXTENDS Integers, Sequences, FiniteSets, TLC

\* ------------------------------------------------------------------ bounds
\* Largest count a collector returns, and largest value in a stored history.
MaxObs == 2
\* Longest history handed to analyze_anomaly in SpecEval.
EvalMaxLen == 6
\* Largest current value handed to analyze_anomaly in SpecEval.
MaxCurrent == 6
\* Runs started in one behaviour of Spec and of SpecLoad.
MaxRuns == 1
\* Runs started in one behaviour of SpecCold.
ColdRuns == 6

\* ------------------------------------------------------- program constants
ANOMALY_STD_DEV_THRESHOLD == 2
CONVERGENCE_THRESHOLD == 2
\* analyze_anomaly: len(data_points) < 5
MinDataPoints == 5
\* run_analysis: history[ticker][key][-30:]
HistoryCap == 30

\* TARGET_ASSETS, in the order the dict is iterated.
Tickers == <<"DOT", "SOL", "ATOM", "RNDR">>

TARGET_ASSETS ==
    [DOT  |-> <<"polkadot-sdk/polkadot", "Polkadot">>,
     SOL  |-> <<"solana-labs/solana", "Solana">>,
     ATOM |-> <<"cosmos/cosmos-sdk", "Cosmos ATOM">>,
     RNDR |-> <<"RenderToken/rndr-app", "Render Token">>]

\* The keys of one history entry, in the order of the `sources` dict.
SourceKeys == <<"github", "news", "reddit">>

\* The names the `sources` dict gives them.
SourceName == [github |-> "GitHub", news |-> "News", reddit |-> "Reddit"]

Range(s) == {s[k] : k \in DOMAIN s}

Max(a, b) == IF a >= b THEN a ELSE b

\* ----------------------------------------------------------- pure functions

\* s[1] + ... + s[n]
RECURSIVE SumTo(_, _)
SumTo(s, n) == IF n = 0 THEN 0 ELSE s[n] + SumTo(s, n - 1)

\* sum(s)
SumSeq(s) == SumTo(s, Len(s))

\* statistics.mean(data): sum(data) / len(data), as a fraction.
mean(data) == <<SumSeq(data), Len(data)>>

\* The sum of squared deviations from the mean, statistics._ss, scaled by n^2:
\* sum((n*x - S)^2) over the data, S the sum and n the length.
ScaledSS(data) ==
    LET n == Len(data)
        S == SumSeq(data)
    IN  SumSeq([k \in 1..n |-> (n * data[k] - S) * (n * data[k] - S)])

\* statistics.stdev(data) squared: the sample variance ss / (n - 1), a fraction.
variance(data) ==
    LET n == Len(data)
    IN  <<ScaledSS(data), n * n * (n - 1)>>

\* The variant of GreaterThanThreshold that also accepts the boundary (>=).
GreaterOrEqualThreshold(current, m, v) ==
    LET d == current * m[2] - m[1]
        K == ANOMALY_STD_DEV_THRESHOLD
    IN  /\ d >= 0
        /\ d * d * v[2] >= K * K * v[1] * m[2] * m[2]

\* current > (mean + ANOMALY_STD_DEV_THRESHOLD * stdev), m the mean and v the
\* variance: current - m > K * sqrt(v)  iff  current - m > 0 and
\* (current - m)^2 > K^2 * v.
GreaterThanThreshold(current, m, v) ==
    LET d == current * m[2] - m[1]
        K == ANOMALY_STD_DEV_THRESHOLD
    IN  /\ d > 0
        /\ d * d * v[2] > K * K * v[1] * m[2] * m[2]

\* The variant of InsufficientData with the limit one lower.
InsufficientDataOffByOne(data_points) == Len(data_points) < MinDataPoints - 1

\* if len(data_points) < 5
InsufficientData(data_points) == Len(data_points) < MinDataPoints

\* The variant of ZeroSpread that never takes the guard.
ZeroSpreadIgnored(v) == FALSE

\* if stdev == 0
ZeroSpread(v) == v[1] = 0

Zero == <<0, 1>>

\* analyze_anomaly(data_points, current) -> (is_anomaly, mean, stdev); the
\* field stdev_sq holds the square of the returned stdev.
analyze_anomaly(data_points, current) ==
    IF InsufficientData(data_points)
    THEN [is_anomaly |-> FALSE, mean |-> Zero, stdev_sq |-> Zero]
    ELSE LET m == mean(data_points)
             v == variance(data_points)
         IN  IF ZeroSpread(v)
             THEN [is_anomaly |-> FALSE, mean |-> m, stdev_sq |-> v]
             ELSE [is_anomaly |-> GreaterThanThreshold(current, m, v),
                   mean |-> m, stdev_sq |-> v]

\* ---------------------------------------------------------------- state

VARIABLES
    file,               \* synapse_history.json: [exists, data]
    live,               \* the <<ticker, key>> whose provider answers with data
    api_key,            \* whether CRYPTO_PANIC_API_KEY is set
    budget,             \* runs that may still be started
    completed,          \* runs that reached "Analysis Complete"
    pc,                 \* the position of run_analysis
    history,            \* run_analysis: history
    i,                  \* index in Tickers of the asset of the loop
    obs,                \* github_commits, news_mentions, reddit_mentions
    outcome,            \* how each collector call of this asset ended
    anomalies_found,    \* run_analysis: anomalies_found
    convergence_alerts, \* run_analysis: convergence_alerts
    printed,            \* the per-source report lines of this run
    error,              \* the exception that ended the process, or NoError
    ev_history,         \* SpecEval: the data_points argument
    ev_current,         \* SpecEval: the current_value argument
    ev_result,          \* SpecEval: the value returned
    ev_done             \* SpecEval: whether analyze_anomaly was applied

run_vars == <<file, live, api_key, budget, completed, pc, history, i, obs,
              outcome, anomalies_found, convergence_alerts, printed, error>>

ev_vars == <<ev_history, ev_current, ev_result, ev_done>>

vars == <<run_vars, ev_vars>>

NoError == <<"none", "none">>

NoOutcome == [github |-> "none", news |-> "none", reddit |-> "none"]

NoObs == [github |-> 0, news |-> 0, reddit |-> 0]

NoFile == [exists |-> FALSE, data |-> << >>]

ticker == Tickers[i]

Keys == Range(SourceKeys)

\* ---------------------------------------------------------- history store

\* history[ticker] = {"github": [], "news": [], "reddit": []}
EmptyEntry == [k \in Keys |-> << >>]

\* load_history(): the file's mapping, or {} when there is no file.
load_history == IF file.exists THEN file.data ELSE << >>

\* lst[-n:]
LastN(lst, n) == SubSeq(lst, Max(Len(lst) - n, 0) + 1, Len(lst))

\* The variant of Cap that keeps the oldest entries: lst[:30].
CapKeepOldest(lst) == SubSeq(lst, 1, IF Len(lst) < HistoryCap THEN Len(lst) ELSE HistoryCap)

\* The variant of Cap that does not truncate.
CapMissing(lst) == lst

\* history[ticker][key][-30:]
Cap(lst) == LastN(lst, HistoryCap)

\* Lines 151-156 on one entry: the three appends, then the cap of every key.
UpdatedEntry(entry, o) ==
    [k \in DOMAIN entry |->
        Cap(IF k \in Keys THEN Append(entry[k], o[k]) ELSE entry[k])]

\* ------------------------------------------------------------- collectors

\* What the body of each collector can raise: a failed request (network
\* error, timeout, HTTP error status, invalid JSON) or a response of an
\* unexpected shape.
Raises ==
    [github |-> {"RequestException"},
     news   |-> {"RequestException", "KeyError", "ValueError"},
     reddit |-> {"RequestException", "KeyError", "TypeError"}]

\* The except clause of each collector.
Catches ==
    [github |-> {"RequestException"},
     news   |-> {"RequestException"},
     reddit |-> {"RequestException", "KeyError"}]

\* One call of the collector of key k for the asset of the loop; next is the
\* position after it.
\*  - the provider answers and the body returns the count n;
\*  - the body raises e: the except clause returns 0, or e leaves the
\*    collector and, run_analysis catching nothing, ends the process.
Collect(k, next) ==
    \/ /\ <<ticker, k>> \in live
       /\ \E n \in 0..MaxObs :
            /\ obs' = [obs EXCEPT ![k] = n]
            /\ outcome' = [outcome EXCEPT ![k] = "ok"]
       /\ pc' = next
       /\ error' = error
    \/ /\ \E e \in Raises[k] :
            /\ <<ticker, k>> \notin live => e = "RequestException"
            /\ IF e \in Catches[k]
               THEN /\ obs' = [obs EXCEPT ![k] = 0]
                    /\ outcome' = [outcome EXCEPT ![k] = e]
                    /\ pc' = next
                    /\ error' = error
               ELSE /\ obs' = obs
                    /\ outcome' = [outcome EXCEPT ![k] = e]
                    /\ pc' = "aborted"
                    /\ error' = <<e, k>>

get_github_commits ==
    /\ pc = "collect_github"
    /\ Collect("github", "collect_news")
    /\ UNCHANGED <<file, live, api_key, budget, completed, history, i,
                   anomalies_found, convergence_alerts, printed, ev_vars>>

get_news_mentions ==
    /\ pc = "collect_news"
    /\ \/ /\ ~api_key
          /\ obs' = [obs EXCEPT !["news"] = 0]
          /\ outcome' = [outcome EXCEPT !["news"] = "skipped"]
          /\ pc' = "collect_reddit"
          /\ error' = error
       \/ /\ api_key
          /\ Collect("news", "collect_reddit")
    /\ UNCHANGED <<file, live, api_key, budget, completed, history, i,
                   anomalies_found, convergence_alerts, printed, ev_vars>>

get_reddit_mentions ==
    /\ pc = "collect_reddit"
    /\ Collect("reddit", "analyze")
    /\ UNCHANGED <<file, live, api_key, budget, completed, history, i,
                   anomalies_found, convergence_alerts, printed, ev_vars>>

\* ------------------------------------------------------------ run_analysis

\* Lines 122-123: an asset the mapping does not hold gets an entry of three
\* empty lists; an entry that is there is left as it is.
LazyInit(h, t) ==
    IF t \in DOMAIN h
    THEN h
    ELSE [x \in DOMAIN h \cup {t} |-> IF x = t THEN EmptyEntry ELSE h[x]]

\* Lines 115-123: a new process; history = load_history(), and the loop
\* takes the first asset.
Start ==
    /\ pc \in {"idle", "aborted"}
    /\ budget > 0
    /\ budget' = budget - 1
    /\ history' = LazyInit(load_history, Tickers[1])
    /\ convergence_alerts' = << >>
    /\ printed' = << >>
    /\ anomalies_found' = << >>
    /\ obs' = NoObs
    /\ outcome' = NoOutcome
    /\ error' = NoError
    /\ i' = 1
    /\ pc' = "collect_github"
    /\ UNCHANGED <<file, live, api_key, completed, ev_vars>>

\* The variant of Baseline that already holds the new observation (the
\* history updated before the analysis).
BaselineAfterAppend(entry, k) == Append(entry[k], obs[k])

\* The past_data of source k in the `sources` dict: history[ticker][k].
Baseline(entry, k) == entry[k]

\* The report line of one source (line 142).
Line(k, r) ==
    [ticker |-> ticker, source |-> SourceName[k], current |-> obs[k],
     is_anomaly |-> r.is_anomaly]

\* The names of the keys of ks (in order) that flag holds for.
RECURSIVE Flagged(_, _)
Flagged(ks, flag) ==
    IF ks = << >> THEN << >>
    ELSE (IF flag[Head(ks)] THEN <<SourceName[Head(ks)]>> ELSE << >>)
         \o Flagged(Tail(ks), flag)

\* The variant of Converges with the comparison strict.
ConvergesStrict(found) == Len(found) > CONVERGENCE_THRESHOLD

\* len(anomalies_found) >= CONVERGENCE_THRESHOLD
Converges(found) == Len(found) >= CONVERGENCE_THRESHOLD

\* Lines 147-148: the alerts after the convergence check of this asset.
WithAlert(alerts, found) ==
    IF Converges(found)
    THEN Append(alerts, [query |-> TARGET_ASSETS[ticker][2], ticker |-> ticker,
                         platforms |-> found])
    ELSE alerts

\* Lines 131-148: the `sources` dict, the loop over it and the convergence
\* check.  Reading a key the entry does not hold raises KeyError, which
\* nothing catches.
Analyze ==
    /\ pc = "analyze"
    /\ IF Keys \subseteq DOMAIN history[ticker]
       THEN LET res == [k \in Keys |->
                           analyze_anomaly(Baseline(history[ticker], k), obs[k])]
                found == Flagged(SourceKeys, [k \in Keys |-> res[k].is_anomaly])
            IN  /\ anomalies_found' = found
                /\ printed' = printed \o
                        [n \in 1..Len(SourceKeys) |->
                            Line(SourceKeys[n], res[SourceKeys[n]])]
                /\ convergence_alerts' = WithAlert(convergence_alerts, found)
                /\ pc' = "update"
                /\ error' = error
       ELSE /\ pc' = "aborted"
            /\ error' = <<"KeyError", "run_analysis">>
            /\ UNCHANGED <<anomalies_found, printed, convergence_alerts>>
    /\ UNCHANGED <<file, live, api_key, budget, completed, history, i, obs,
                   outcome, ev_vars>>

\* Lines 150-156, and the loop's step: to the next asset (lines 119-123) or
\* out of the loop.
UpdateHistory ==
    /\ pc = "update"
    /\ LET h == [history EXCEPT ![ticker] = UpdatedEntry(history[ticker], obs)]
       IN  IF i < Len(Tickers)
           THEN /\ history' = LazyInit(h, Tickers[i + 1])
                /\ i' = i + 1
                /\ pc' = "collect_github"
           ELSE /\ history' = h
                /\ i' = i
                /\ pc' = "save"
    /\ outcome' = NoOutcome
    /\ UNCHANGED <<file, live, api_key, budget, completed, obs,
                   anomalies_found, convergence_alerts, printed, error, ev_vars>>

\* Line 159: save_history(history).
save_history ==
    /\ pc = "save"
    /\ file' = [exists |-> TRUE, data |-> history]
    /\ pc' = "report"
    /\ UNCHANGED <<live, api_key, budget, completed, history, i, obs, outcome,
                   anomalies_found, convergence_alerts, printed, error, ev_vars>>

\* Lines 161-170: the convergence report and "Analysis Complete".
Report ==
    /\ pc = "report"
    /\ completed' = completed + 1
    /\ pc' = "idle"
    /\ UNCHANGED <<file, live, api_key, budget, history, i, obs, outcome,
                   anomalies_found, convergence_alerts, printed, error, ev_vars>>

Next ==
    \/ Start
    \/ get_github_commits
    \/ get_news_mentions
    \/ get_reddit_mentions
    \/ Analyze
    \/ UpdateHistory
    \/ save_history
    \/ Report

\* ------------------------------------------------------------ initial states

\* A sequence of n counts that earlier runs can have stored.
Pattern(kind, n) ==
    [m \in 1..n |->
        CASE kind = "flat" -> 1
          [] kind = "tail" -> IF m = n THEN 1 ELSE 0
          [] OTHER -> m % (MaxObs + 1)]

\* The file after earlier runs of this program: every tracked asset, every
\* key, all sequences of one length.
WrittenFile(kind, n) ==
    [exists |-> TRUE,
     data |-> [t \in Range(Tickers) |-> [k \in Keys |-> Pattern(kind, n)]]]

\* No file, and files of 4, 5 and 30 earlier runs: too short for statistics,
\* just long enough (with and without spread), and at the cap.
WrittenFiles ==
    {NoFile,
     WrittenFile("tail", MinDataPoints - 1),
     WrittenFile("tail", MinDataPoints),
     WrittenFile("flat", MinDataPoints),
     WrittenFile("tail", HistoryCap),
     WrittenFile("cycle", HistoryCap)}

\* Files of another origin: written for another asset table (assets missing),
\* or holding an entry without one of the keys.
PartialFiles ==
    {[exists |-> TRUE,
      data |-> [t \in Range(Tickers) \ {gone} |->
                   [k \in Keys |-> Pattern("tail", MinDataPoints)]]] :
        gone \in Range(Tickers)}
    \cup
    {[exists |-> TRUE,
      data |-> [t \in Range(Tickers) |->
                   [k \in (IF t = at THEN Keys \ {lost} ELSE Keys) |->
                       Pattern("tail", MinDataPoints)]]] :
        at \in Range(Tickers), lost \in Keys}

\* The keys whose provider answers for the n-th asset when that asset is the
\* active one; every other call fails.
LiveKeys ==
    <<{"github", "news"}, {"news", "reddit"}, {"github", "reddit"},
      {"github", "news", "reddit"}>>

LiveOf(n, ks) == {<<Tickers[n], k>> : k \in ks}

\* The environments <<live, api_key>> of Spec and SpecLoad: one asset is
\* active and the news key is set; or the key is not set.
Environments ==
    {<<LiveOf(n, LiveKeys[n]), TRUE>> : n \in 1..Len(Tickers)}
    \cup {<<LiveOf(1, Keys), FALSE>>}

\* The environments of SpecCold: one provider answers for one asset, the
\* n-th asset's n-th key (the keys taken in turn).
LiveSingles ==
    {LiveOf(n, {SourceKeys[((n - 1) % Len(SourceKeys)) + 1]}) :
        n \in 1..Len(Tickers)}

InitProcess ==
    /\ completed = 0
    /\ pc = "idle"
    /\ history = << >>
    /\ i = 1
    /\ obs = NoObs
    /\ outcome = NoOutcome
    /\ anomalies_found = << >>
    /\ convergence_alerts = << >>
    /\ printed = << >>
    /\ error = NoError

InitNoEval ==
    /\ ev_history = << >>
    /\ ev_current = 0
    /\ ev_result = analyze_anomaly(<< >>, 0)
    /\ ev_done = FALSE

\* The program started on a file it wrote itself, or on none.
Init ==
    /\ file \in WrittenFiles
    /\ \E env \in Environments : live = env[1] /\ api_key = env[2]
    /\ budget = MaxRuns
    /\ InitProcess
    /\ InitNoEval

\* The program started with no state file.
InitCold ==
    /\ file = NoFile
    /\ live \in LiveSingles
    /\ api_key = TRUE
    /\ budget = ColdRuns
    /\ InitProcess
    /\ InitNoEval

\* The program started on any file, its own or not.
InitLoad ==
    /\ file \in WrittenFiles \cup PartialFiles
    /\ \E env \in Environments : live = env[1] /\ api_key = env[2]
    /\ budget = MaxRuns
    /\ InitProcess
    /\ InitNoEval

Spec == Init /\ [][Next]_vars

SpecCold == InitCold /\ [][Next]_vars

SpecLoad == InitLoad /\ [][Next]_vars

\* ------------------------------------------------- analyze_anomaly alone

Histories == UNION {[1..n -> 0..MaxObs] : n \in 0..EvalMaxLen}

InitEval ==
    /\ ev_history \in Histories
    /\ ev_current \in 0..MaxCurrent
    /\ ev_result = analyze_anomaly(<< >>, 0)
    /\ ev_done = FALSE
    /\ file = NoFile
    /\ live = {}
    /\ api_key = FALSE
    /\ budget = 0
    /\ InitProcess

Evaluate ==
    /\ ~ev_done
    /\ ev_result' = analyze_anomaly(ev_history, ev_current)
    /\ ev_done' = TRUE
    /\ UNCHANGED <<ev_history, ev_current, run_vars>>

NextEval == Evaluate

SpecEval == InitEval /\ [][NextEval]_vars

\* ------------------------------------------------------------------ claims

Min(a, b) == IF a <= b THEN a ELSE b

SumSq(h) == SumSeq([k \in 1..Len(h) |-> h[k] * h[k]])

\* n * sum(x^2) - (sum x)^2: n^2 times the population variance of h.
Spread(h) == Len(h) * SumSq(h) - SumSeq(h) * SumSeq(h)

AllEqual(h) == \A a, b \in DOMAIN h : h[a] = h[b]

\* n * current - sum: n times the distance of current above the mean.
Excess(h, c) == Len(h) * c - SumSeq(h)

\* current > m + 2.0 * s, with m = S/n and s^2 = Spread / (n (n - 1)):
\* n c - S > 0 and (n c - S)^2 (n - 1) > 4 n Spread.
AboveTwoSigma(h, c) ==
    /\ Excess(h, c) > 0
    /\ Excess(h, c) * Excess(h, c) * (Len(h) - 1) > 4 * Len(h) * Spread(h)

\* current = m + 2.0 * s exactly.
AtTwoSigma(h, c) ==
    /\ Excess(h, c) > 0
    /\ Excess(h, c) * Excess(h, c) * (Len(h) - 1) = 4 * Len(h) * Spread(h)

\* C1: for a history of at least 5 counts with standard deviation s > 0 and
\* mean m, analyze_anomaly returns is_anomaly = true if and only if
\* current > m + 2.0 * s; a current value exactly at m + 2.0 * s is not an
\* anomaly.
C1_ThresholdRule ==
    (ev_done /\ Len(ev_history) >= 5 /\ ~AllEqual(ev_history)) =>
        /\ ev_result.is_anomaly <=> AboveTwoSigma(ev_history, ev_current)
        /\ AtTwoSigma(ev_history, ev_current) => ~ev_result.is_anomaly

C1_Witness ==
    /\ ev_done
    /\ Len(ev_history) >= 5
    /\ ~AllEqual(ev_history)
    /\ AtTwoSigma(ev_history, ev_current)
    /\ ~ev_result.is_anomaly

\* C2: for a history of fewer than 5 counts (the empty one included)
\* analyze_anomaly returns (false, 0.0, 0.0), however large current is.
C2_InsufficientData ==
    (ev_done /\ Len(ev_history) < 5) =>
        ev_result = [is_anomaly |-> FALSE, mean |-> <<0, 1>>, stdev_sq |-> <<0, 1>>]

C2_Witness ==
    /\ ev_done
    /\ Len(ev_history) = 4
    /\ ~AllEqual(ev_history)
    /\ ev_current = MaxCurrent
    /\ \A k \in DOMAIN ev_history : ev_history[k] < ev_current
    /\ ~ev_result.is_anomaly

\* C3: for a history of at least 5 identical counts analyze_anomaly returns
\* is_anomaly = false with the mean of the history and stdev 0, also when
\* current exceeds the constant baseline.
C3_ConstantBaseline ==
    (ev_done /\ Len(ev_history) >= 5 /\ AllEqual(ev_history)) =>
        /\ ~ev_result.is_anomaly
        /\ ev_result.mean[1] = ev_history[1] * ev_result.mean[2]
        /\ ev_result.mean[2] > 0
        /\ ev_result.stdev_sq[1] = 0

C3_Witness ==
    /\ ev_done
    /\ Len(ev_history) >= 5
    /\ AllEqual(ev_history)
    /\ ev_current > ev_history[1]
    /\ ~ev_result.is_anomaly

\* The report lines of this run for asset t.
LinesOf(t) == {n \in DOMAIN printed : printed[n].ticker = t}

\* The sources flagged anomalous for asset t in this run.
FlaggedSources(t) == {printed[n].source : n \in {m \in LinesOf(t) : printed[m].is_anomaly}}

AlertsOf(t) == {n \in DOMAIN convergence_alerts : convergence_alerts[n].ticker = t}

\* C4: for every asset evaluated in a run there is one report line for each
\* of GitHub, News and Reddit, and a convergence alert is recorded for the
\* asset if and only if at least 2 of them are flagged; the alert lists
\* exactly the flagged sources, each once.
C4_ConvergenceRule ==
    \A t \in Range(Tickers) :
        /\ LinesOf(t) # {} =>
              /\ Cardinality(LinesOf(t)) = 3
              /\ {printed[n].source : n \in LinesOf(t)} = {"GitHub", "News", "Reddit"}
        /\ AlertsOf(t) # {} <=> Cardinality(FlaggedSources(t)) >= 2
        /\ Cardinality(AlertsOf(t)) <= 1
        /\ \A n \in AlertsOf(t) :
              /\ Range(convergence_alerts[n].platforms) = FlaggedSources(t)
              /\ Len(convergence_alerts[n].platforms) = Cardinality(FlaggedSources(t))

C4_Witness ==
    \E t \in Range(Tickers) :
        /\ Cardinality(FlaggedSources(t)) = 2
        /\ Cardinality(LinesOf(t)) = 3
        /\ \E n \in AlertsOf(t) : Len(convergence_alerts[n].platforms) = 2

\* C5: the update of one sequence appends, then caps, evicting the oldest:
\* from h and the new value v it stores the last 30 elements of h with v
\* appended, in order; its length is min(len(h) + 1, 30) and its last
\* element is v.
C5_AppendThenCap ==
    [][pc = "update" =>
        \A k \in Keys :
            LET h == history[ticker][k]
                r == history'[ticker][k]
            IN  /\ Len(r) = Min(Len(h) + 1, 30)
                /\ r[Len(r)] = obs[k]
                /\ \A j \in 1..(Len(r) - 1) : r[j] = h[j + Len(h) + 1 - Len(r)]]_vars

\* The history of an asset after an update of a sequence of length 30 whose
\* two oldest elements differ: the oldest is gone, the length is still 30.
C5_Witness ==
    /\ file.exists
    /\ pc = "save"
    /\ \E t \in DOMAIN file.data :
          LET h == file.data[t]["github"]
              r == history[t]["github"]
          IN  /\ Len(h) = 30
              /\ h[1] # h[2]
              /\ Len(r) = 30
              /\ r[1] = h[2]
              /\ r[29] = h[30]
              /\ r[30] # h[30]

Failed(k) == outcome[k] \in {"RequestException", "KeyError", "ValueError", "TypeError"}

\* C7: a collector that fails (network error, timeout, or a response of an
\* unexpected shape) yields 0, and no error leaves a collector: the run is
\* never ended by one.
C7_FailureIsolation ==
    /\ pc # "aborted" => \A k \in Keys : Failed(k) => obs[k] = 0
    /\ error[2] \notin Keys

\* C8: a tracked asset whose key is missing from the loaded mapping, or whose
\* entry lacks one of the keys github, news, reddit, has the missing parts
\* set to empty sequences before the asset is analysed, and the run is never
\* ended by a missing key.
C8_LazyInit ==
    /\ pc \in {"analyze", "update"} =>
          /\ ticker \in DOMAIN history
          /\ Keys \subseteq DOMAIN history[ticker]
    /\ error # <<"KeyError", "run_analysis">>

\* The sequence of asset t, key k as the run found it in the file.
Stored(t, k) ==
    IF file.exists /\ t \in DOMAIN file.data /\ k \in DOMAIN file.data[t]
    THEN file.data[t][k]
    ELSE << >>

KeyOf(name) == CHOOSE k \in Keys : SourceName[k] = name

InLoop == pc \in {"collect_github", "collect_news", "collect_reddit", "analyze", "update"}

\* C9: within a run every evaluation is made against the stored history as
\* it was before this run's observation was appended, and the append of an
\* asset comes after its evaluations and convergence check: when the asset
\* has been evaluated and awaits its update, the flags of its three report
\* lines are those of the sequences the file held; until its update the
\* asset's sequences are the stored ones, and after it they end with the
\* observation that was evaluated.
C9_EvaluateBeforeAppend ==
    /\ pc = "update" =>
          \A n \in LinesOf(ticker) :
              printed[n].is_anomaly =
                  analyze_anomaly(Stored(ticker, KeyOf(printed[n].source)),
                                  printed[n].current).is_anomaly
    /\ InLoop =>
          /\ \A k \in Keys : history[ticker][k] = Stored(ticker, k)
          /\ pc # "update" => LinesOf(ticker) = {}
          /\ pc = "update" => Cardinality(LinesOf(ticker)) = 3
          /\ \A m \in 1..(i - 1) : \A n \in LinesOf(Tickers[m]) :
                LET s == history[Tickers[m]][KeyOf(printed[n].source)]
                IN  /\ Len(s) = Min(Len(Stored(Tickers[m], KeyOf(printed[n].source))) + 1, 30)
                    /\ s[Len(s)] = printed[n].current

\* An asset was flagged on a baseline of at least 5 and is about to be updated.
C9_Witness ==
    /\ pc = "update"
    /\ \E n \in LinesOf(ticker) :
          /\ printed[n].is_anomaly
          /\ Len(history[ticker][KeyOf(printed[n].source)]) >= 5
          /\ history[ticker][KeyOf(printed[n].source)]
                = Stored(ticker, KeyOf(printed[n].source))

NoneFlagged == \A n \in DOMAIN printed : ~printed[n].is_anomaly

\* C10: started without a state file, the first 5 completed runs flag no
\* source and record no convergence alert, whatever the collectors return;
\* every completed run has appended one observation to every sequence of
\* every tracked asset.
C10_ColdStart ==
    /\ (completed < 5 \/ (completed = 5 /\ pc = "idle")) =>
          /\ NoneFlagged
          /\ convergence_alerts = << >>
    /\ (completed > 0 /\ pc = "idle") =>
          /\ DOMAIN file.data = Range(Tickers)
          /\ \A t \in Range(Tickers) : \A k \in Keys :
                Len(file.data[t][k]) = Min(completed, 30)

\* The 6th run flags a source.
C10_Witness ==
    /\ completed = 5
    /\ pc = "update"
    /\ ~NoneFlagged

====
